---------------------------- MODULE Spec2Model ----------------------------
(***************************************************************************)
(* A model of src/hw5.py: class QuestionnaireAnalysis.                     *)
(*                                                                         *)
(* The object holds one attribute that matters, self.data: None after      *)
(* construction, a pandas DataFrame after read_data.  A DataFrame is       *)
(* modelled as a record                                                    *)
(*      [index   : the row labels, a sequence,                             *)
(*       columns : the column names in order, a sequence,                  *)
(*       col     : column name -> the column's cells, a sequence]          *)
(* A cell is Absent (NaN / None / pd.NA) or <<v>> for a present value v;   *)
(* a non-integral float is <<n, d>>, the fraction n/d in lowest terms.     *)
(* A column name and an email are sequences of one-character strings, so   *)
(* that the regular expressions of the code are computed, not assumed.     *)
(***************************************************************************)
EXTENDS Integers, Sequences, FiniteSets, TLC

VARIABLES
    file,   \* what the file self.data_fname names holds: a table or NotJson
    data,   \* self.data: None or a DataFrame
    op,     \* the method called last ("__init__" after construction)
    arg,    \* its arguments: <<maximal_nans_per_sub>>, or NoArg when it has none
    ret,    \* what the call returned: a record with a kind field
    err     \* the exception the call raised, "none" when it returned

vars == <<file, data, op, arg, ret, err>>

-----------------------------------------------------------------------------
(* Bounds of the model *)

\* rows of a table of the age and email families
MaxRows == 3
\* rows of a table of the question-column family
MaxQRows == 2
\* rows of a table of the UInt8-range family
MaxRangeRows == 2
\* rows of a table of the gender/age family
MaxCorrRows == 2
\* largest maximal_nans_per_sub passed to score_subjects
MaxThreshold == 2

-----------------------------------------------------------------------------
(* Values *)

None == [kind |-> "None"]
\* the arguments of a call that takes none
NoArg == <<>>
NoResult == [kind |-> "none"]

Absent == <<>>
IsAbsent(cell) == Len(cell) = 0
IsPresent(cell) == Len(cell) > 0

Range(s) == {s[i] : i \in 1..Len(s)}

RECURSIVE Sum(_)
Sum(s) == IF Len(s) = 0 THEN 0 ELSE Head(s) + Sum(Tail(s))

RECURSIVE GCD(_, _)
GCD(a, b) == IF b = 0 THEN a ELSE GCD(b, a % b)

Abs(x) == IF x < 0 THEN -x ELSE x

\* the float n/d (d > 0) as a cell
Float(n, d) ==
    LET g == GCD(Abs(n), d)
    IN  IF d \div g = 1 THEN <<n \div g>> ELSE <<n \div g, d \div g>>

\* the present values of a sequence of integer cells, in order
Present(cells) ==
    LET p == SelectSeq(cells, IsPresent)
    IN  [i \in 1..Len(p) |-> p[i][1]]

\* Series.mean / DataFrame.mean, skipna=True: NaN when nothing is present
Mean(cells) ==
    LET p == Present(cells)
    IN  IF Len(p) = 0 THEN Absent ELSE Float(Sum(p), Len(p))

\* np.floor of a float cell: NaN stays NaN
Floor(cell) ==
    IF IsAbsent(cell) THEN Absent
    ELSE IF Len(cell) = 1 THEN cell
    ELSE <<cell[1] \div cell[2]>>

Return(d, r) == [data |-> d, ret |-> r, err |-> "none"]
Raise(d, e) == [data |-> d, ret |-> NoResult, err |-> e]

-----------------------------------------------------------------------------
(* Characters *)

Digits == {"0", "1", "2", "3", "4", "5", "6", "7", "8", "9"}
Letters == {"a", "b", "c", "d", "e", "f", "g", "i", "l", "m", "n", "o", "q",
            "r", "t", "x", "y", "z"}
\* \w
IsWord(c) == c \in Letters \cup Digits \cup {"_"}
\* \d
IsDigit(c) == c \in Digits
\* . (anything but a line break)
IsAnyChar(c) == c # "\n"

-----------------------------------------------------------------------------
(* Tables *)

AgeName == <<"a", "g", "e">>
GenderName == <<"g", "e", "n", "d", "e", "r">>
EmailName == <<"e", "m", "a", "i", "l">>
ScoreName == <<"s", "c", "o", "r", "e">>
IndexName == <<"i", "n", "d", "e", "x">>

NRows(df) == Len(df.index)

\* the default RangeIndex 0..n-1
RangeIndex(n) == [i \in 1..n |-> i - 1]

\* df[name] = series on (a copy of) df, appending the column when it is new
SetColumn(df, name, series) ==
    [ index   |-> df.index,
      columns |-> IF name \in Range(df.columns) THEN df.columns
                  ELSE Append(df.columns, name),
      col     |-> [c \in Range(df.columns) \cup {name} |->
                     IF c = name THEN series ELSE df.col[c]] ]

\* df[names]: the sub-frame of the named columns
Project(df, names) ==
    [ index   |-> df.index,
      columns |-> names,
      col     |-> [c \in Range(names) |-> df.col[c]] ]


-----------------------------------------------------------------------------
(* The JSON files read_data may find: valid record lists, as tables.       *)
(* Each family varies the columns one method reads and fixes the others.   *)
(* gender is always a string (the input format allows null only for age    *)
(* and the question columns; a null email is the subject of section 4.3).  *)

Q1 == <<"q", "1">>
Q2 == <<"q", "2">>
Q10 == <<"q", "1", "0">>
Freq1 == <<"f", "r", "e", "q", "1">>
Q1Note == <<"q", "1", "_", "n", "o", "t", "e">>
Iq == <<"i", "q">>

Const(n, v) == [i \in 1..n |-> v]

Email(s) == <<s>>
GoodEmail == Email(<<"a", "@", "b", ".", "c", "o", "m">>)

MkTable(ages, genders, emails, names, numcol) ==
    [ index   |-> RangeIndex(Len(ages)),
      columns |-> <<AgeName, GenderName, EmailName>> \o names,
      col     |-> [c \in {AgeName, GenderName, EmailName} \cup Range(names) |->
                     IF c = AgeName THEN ages
                     ELSE IF c = GenderName THEN genders
                     ELSE IF c = EmailName THEN emails
                     ELSE numcol[c]] ]

HistAges == {Absent, <<-1>>, <<10>>, <<100>>, <<101>>}

AgeTable(ages) ==
    LET n == Len(ages)
    IN  MkTable(ages, Const(n, <<"F">>), Const(n, GoodEmail), <<Q1>>,
                [c \in {Q1} |-> Const(n, <<2>>)])

EmailVals ==
    { Absent,
      GoodEmail,
      Email(<<"b", "a", "d", "-", "e", "m", "a", "i", "l">>),
      Email(<<"x", "@", "y", ".", "z">>),
      Email(<<"a", "@", "b", "c", "d">>),
      Email(<<"@", "b", ".", "c">>),
      Email(<<"a", "@", "b", ".">>),
      Email(<<"-", "a", "@", "b", ".", "c", "-">>) }

EmailTable(emails) ==
    LET n == Len(emails)
    IN  MkTable(Const(n, <<30>>), Const(n, <<"F">>), emails, <<Q1>>,
                [c \in {Q1} |-> Const(n, <<2>>)])

QVals == {Absent, <<2>>, <<5>>}
QNameLists == { <<Q1>>, <<Q1, Q2>>, <<Q1, Freq1>>, <<Q10, Q1Note>>, <<Iq>> }

QTable(n, names, numcol) ==
    MkTable(Const(n, <<30>>), Const(n, <<"F">>), Const(n, GoodEmail), names, numcol)

\* values around the ends of the uint8 range
RangeVals == {Absent, <<-1>>, <<255>>, <<256>>}
HighVals == {Absent, <<256>>}

GenderOrder == << <<"F">>, <<"M">> >>
CorrAges == {Absent, <<40>>, <<41>>}
CorrQVals == {<<2>>, <<5>>}

CorrTable(ages, genders, q1) ==
    MkTable(ages, genders, Const(Len(ages), GoodEmail), <<Q1>>, [c \in {Q1} |-> q1])

\* the file holds a valid list of records
ValidFile ==
    \/ \E n \in 1..MaxRows : \E a \in [1..n -> HistAges] : file = AgeTable(a)
    \/ \E n \in 1..MaxRows : \E e \in [1..n -> EmailVals] : file = EmailTable(e)
    \/ \E n \in 1..MaxQRows : \E names \in QNameLists :
          \E numcol \in [Range(names) -> [1..n -> QVals]] :
              file = QTable(n, names, numcol)
    \/ \E n \in 1..MaxRangeRows :
          \E c1 \in [1..n -> RangeVals] : \E c2 \in [1..n -> HighVals] :
              file = QTable(n, <<Q1, Q2>>, [c \in {Q1, Q2} |-> IF c = Q1 THEN c1 ELSE c2])
    \/ \E n \in 1..MaxCorrRows :
          \E a \in [1..n -> CorrAges] : \E g \in [1..n -> Range(GenderOrder)] :
              \E q \in [1..n -> CorrQVals] : file = CorrTable(a, g, q)

-----------------------------------------------------------------------------
(* __init__ and read_data *)

\* a file that pd.read_json cannot parse
NotJson == [kind |-> "NotJson"]

\* self.data = None; the constructor raised before if the file is missing,
\* so the file exists and holds something
Init ==
    /\ file = NotJson \/ ValidFile
    /\ data = None
    /\ op = "__init__"
    /\ arg = NoArg
    /\ ret = NoResult
    /\ err = "none"

\* pd.read_json(self.data_fname): ValueError when the content is not JSON
ReadJson(f, d) == IF f = NotJson THEN Raise(d, "ValueError") ELSE Return(f, NoResult)

\* self.data = pd.read_json(self.data_fname)
read_data ==
    LET outcome == ReadJson(file, data)
    IN  /\ data' = outcome.data
        /\ op' = "read_data"
        /\ arg' = NoArg
        /\ ret' = outcome.ret
        /\ err' = outcome.err
        /\ UNCHANGED file

\* the effect of a method call on the state
Call(name, a, outcome) ==
    /\ data' = outcome.data
    /\ op' = name
    /\ arg' = a
    /\ ret' = outcome.ret
    /\ err' = outcome.err
    /\ UNCHANGED file

-----------------------------------------------------------------------------
(* show_age_distrib *)

\* np.arange(0, 101, 10)
BinEdges == [i \in 1..11 |-> 10 * (i - 1)]

\* every bin half-open, the last one too
InBinHalfOpen(v, i, edges) == edges[i] <= v /\ v < edges[i + 1]

\* whether np.histogram puts age v in bin i: [edge i, edge i+1), the last
\* bin closed on the right
InBin(v, i, edges) ==
    \/ edges[i] <= v /\ v < edges[i + 1]
    \/ i = Len(edges) - 1 /\ v = edges[i + 1]

\* np.histogram(values, bins=edges)[0]
Histogram(values, edges) ==
    [i \in 1..(Len(edges) - 1) |->
        Cardinality({j \in 1..Len(values) : InBin(values[j], i, edges)})]

\* the call on a loaded table
AgeDistrib(d) ==
    LET ages == Present(d.col[AgeName])   \* self.data['age'].dropna()
    IN  Return(d, [kind |-> "hist", counts |-> Histogram(ages, BinEdges),
                   bins |-> BinEdges])

\* a variant that treats an unloaded object as an empty table
show_age_distrib_silent(d) ==
    IF d = None
    THEN Return(d, [kind |-> "hist", counts |-> Histogram(<<>>, BinEdges),
                    bins |-> BinEdges])
    ELSE AgeDistrib(d)

\* None['age'] raises TypeError
show_age_distrib_call(d) ==
    IF d = None THEN Raise(d, "TypeError") ELSE AgeDistrib(d)

show_age_distrib == Call("show_age_distrib", NoArg, show_age_distrib_call(data))

-----------------------------------------------------------------------------
(* remove_rows_without_mail *)

\* the pattern with the dot escaped: r'\w+@\w\.\w+'
EmailPatternLiteralDot(s) ==
    \E i \in 1..Len(s) : \E j \in i..Len(s) : \E k \in (j + 4)..Len(s) :
        /\ \A x \in i..j : IsWord(s[x])
        /\ s[j + 1] = "@"
        /\ IsWord(s[j + 2])
        /\ s[j + 3] = "."
        /\ \A x \in (j + 4)..k : IsWord(s[x])

\* re.search(r'\w+@\w.\w+', s) finds a match: \w+ is s[i..j], '@' is
\* s[j+1], \w is s[j+2], . is s[j+3], \w+ is s[j+4..k]
EmailPattern(s) ==
    \E i \in 1..Len(s) : \E j \in i..Len(s) : \E k \in (j + 4)..Len(s) :
        /\ \A x \in i..j : IsWord(s[x])
        /\ s[j + 1] = "@"
        /\ IsWord(s[j + 2])
        /\ IsAnyChar(s[j + 3])
        /\ \A x \in (j + 4)..k : IsWord(s[x])

\* Series.str.contains(pat) on one cell: NaN for a missing value
StrContains(cell) == IF IsAbsent(cell) THEN Absent ELSE <<EmailPattern(cell[1])>>

\* series[mask].reset_index(): the old index becomes the column 'index'
RemoveRows(d) ==
    LET email == d.col[EmailName]
        mask == [i \in 1..NRows(d) |-> StrContains(email[i])]
        kept == SelectSeq([i \in 1..NRows(d) |-> i], LAMBDA i : mask[i][1])
        m == Len(kept)
    IN  IF \E i \in 1..NRows(d) : IsAbsent(mask[i])
        THEN \* "Cannot mask with non-boolean array containing NA / NaN values"
             Raise(d, "ValueError")
        ELSE Return(d, [kind |-> "frame",
                        index |-> RangeIndex(m),
                        columns |-> <<IndexName, EmailName>>,
                        col |-> [c \in {IndexName, EmailName} |->
                                   IF c = IndexName
                                   THEN [r \in 1..m |-> <<d.index[kept[r]]>>]
                                   ELSE [r \in 1..m |-> email[kept[r]]]]])

remove_rows_without_mail_call(d) ==
    IF d = None THEN Raise(d, "TypeError") ELSE RemoveRows(d)

remove_rows_without_mail ==
    Call("remove_rows_without_mail", NoArg, remove_rows_without_mail_call(data))

-----------------------------------------------------------------------------
(* The question columns *)

\* re.search(r'q\d', name) finds a match
ContainsQDigit(name) ==
    \E i \in 1..(Len(name) - 1) : name[i] = "q" /\ IsDigit(name[i + 1])

\* self.data.columns[self.data.columns.str.contains(r'q\d')]
q_columns(d) == SelectSeq(d.columns, ContainsQDigit)

\* the number of NaN among row i's cells of the given columns
NaCount(df, names, i) == Cardinality({c \in Range(names) : IsAbsent(df.col[c][i])})

\* row i's cells of the given columns, in column order
RowCells(df, names, i) == [k \in 1..Len(names) |-> df.col[names[k]][i]]

-----------------------------------------------------------------------------
(* fill_na_with_mean *)

\* frame.fillna(means): each NaN becomes its column's mean
FillNa(df, means) ==
    [ index   |-> df.index,
      columns |-> df.columns,
      col     |-> [c \in Range(df.columns) |->
                     [i \in 1..NRows(df) |->
                        IF IsAbsent(df.col[c][i]) THEN means[c] ELSE df.col[c][i]]] ]

FillNaWithMean(d) ==
    LET qs == q_columns(d)
        sub == Project(d, qs)
        \* self.data[self.data[q_columns].isna().any(axis=1)].index
        rows == SelectSeq([i \in 1..NRows(d) |-> i],
                          LAMBDA i : NaCount(sub, qs, i) > 0)
        na_rows == [r \in 1..Len(rows) |-> d.index[rows[r]]]
        \* self.data[q_columns].mean()
        means == [c \in Range(qs) |-> Mean(sub.col[c])]
    IN  Return(d, [kind |-> "filled", df |-> FillNa(sub, means), na_rows |-> na_rows])

\* None.columns raises AttributeError
fill_na_with_mean_call(d) ==
    IF d = None THEN Raise(d, "AttributeError") ELSE FillNaWithMean(d)

fill_na_with_mean == Call("fill_na_with_mean", NoArg, fill_na_with_mean_call(data))

-----------------------------------------------------------------------------
(* score_subjects *)

\* The objects a call holds: self.data and the frame its local variable
\* names.  DataFrame.copy() makes the local a new object.
NoFrame == [kind |-> "NoFrame"]

\* score_df = self.data: the local names the stored table itself
score_df_alias(d) == [ref |-> "self_data", heap |-> [self_data |-> d, local |-> NoFrame]]

\* score_df = self.data.copy()
score_df_copy(d) == [ref |-> "local", heap |-> [self_data |-> d, local |-> d]]

\* corr_df = self.data.copy()
corr_df_copy(d) == [ref |-> "local", heap |-> [self_data |-> d, local |-> d]]

\* whether float v can be cast to uint8 without changing its value
FitsUInt8(cell) == IsAbsent(cell) \/ (0 <= cell[1] /\ cell[1] <= 255)

\* a cast that wraps: C's conversion of the integral float to 8 bits
WrapUInt8(series) ==
    [ok |-> TRUE,
     values |-> [i \in 1..Len(series) |->
                   IF IsAbsent(series[i]) THEN Absent ELSE <<series[i][1] % 256>>]]

\* series.astype('UInt8') on floored floats: NaN becomes <NA>; a value that
\* the cast would change raises "cannot safely cast non-equivalent float64
\* to uint8"
AsTypeUInt8(series) ==
    IF \A i \in 1..Len(series) : FitsUInt8(series[i])
    THEN [ok |-> TRUE, values |-> series]
    ELSE [ok |-> FALSE, values |-> <<>>]

\* whether row i's score is set to pd.NA: isna().sum(axis=1) > maximal
ScoreMasked(nans, maximal_nans_per_sub) == nans > maximal_nans_per_sub

ScoreSubjects(d, maximal_nans_per_sub) ==
    LET c == score_df_copy(d)
        score_df == c.heap[c.ref]
        qs == q_columns(d)
        n == NRows(score_df)
        floored == [i \in 1..n |-> Floor(Mean(RowCells(score_df, qs, i)))]
        cast == AsTypeUInt8(floored)
        score == [i \in 1..n |->
                    IF ScoreMasked(NaCount(score_df, qs, i), maximal_nans_per_sub)
                    THEN Absent ELSE cast.values[i]]
        \* score_df['score'] = score
        heap == [c.heap EXCEPT ![c.ref] = SetColumn(score_df, ScoreName, score)]
    IN  IF ~cast.ok
        THEN Raise(c.heap.self_data, "TypeError")
        ELSE Return(heap.self_data,
                    [kind |-> "frame", index |-> heap[c.ref].index,
                     columns |-> heap[c.ref].columns, col |-> heap[c.ref].col])

\* None.copy() raises AttributeError
score_subjects_call(d, maximal_nans_per_sub) ==
    IF d = None THEN Raise(d, "AttributeError")
    ELSE ScoreSubjects(d, maximal_nans_per_sub)

score_subjects ==
    \E k \in 0..MaxThreshold : Call("score_subjects", <<k>>, score_subjects_call(data, k))

-----------------------------------------------------------------------------
(* correlate_gender_age *)

\* series > 40, elementwise: False on NaN
Above40(cell) == IsPresent(cell) /\ cell[1] > 40

\* the group keys in the order groupby sorts them
AllKeys ==
    [k \in 1..(2 * Len(GenderOrder)) |->
        <<GenderOrder[(k + 1) \div 2], k % 2 = 0>>]

CorrelateGenderAge(d) ==
    LET c == corr_df_copy(d)
        qs == q_columns(d)
        n == NRows(d)
        \* corr_df['age'] = corr_df['age'] > 40
        h1 == [c.heap EXCEPT ![c.ref] =
                 SetColumn(@, AgeName, [i \in 1..n |-> Above40(@.col[AgeName][i])])]
        \* corr_df.index = MultiIndex.from_tuples(zip(index, gender, age))
        h2 == [h1 EXCEPT ![c.ref].index =
                 [i \in 1..n |-> <<h1[c.ref].index[i], h1[c.ref].col[GenderName][i],
                                   h1[c.ref].col[AgeName][i]>>]]
        corr_df == h2[c.ref]
        \* corr_df[q_columns].groupby(level=[1, 2]).mean()
        keyOf(i) == <<corr_df.index[i][2], corr_df.index[i][3]>>
        keys == SelectSeq(AllKeys, LAMBDA k : \E i \in 1..n : keyOf(i) = k)
        members(k) == SelectSeq([i \in 1..n |-> i], LAMBDA i : keyOf(i) = k)
        groupMean(k, col) ==
            Mean([r \in 1..Len(members(k)) |-> corr_df.col[col][members(k)[r]]])
    IN  Return(h2.self_data,
               [kind |-> "frame", index |-> keys, columns |-> qs,
                col |-> [col \in Range(qs) |->
                           [r \in 1..Len(keys) |-> groupMean(keys[r], col)]]])

\* None.copy() raises AttributeError
correlate_gender_age_call(d) ==
    IF d = None THEN Raise(d, "AttributeError") ELSE CorrelateGenderAge(d)

correlate_gender_age ==
    Call("correlate_gender_age", NoArg, correlate_gender_age_call(data))

-----------------------------------------------------------------------------

Next ==
    \/ read_data
    \/ show_age_distrib
    \/ remove_rows_without_mail
    \/ fill_na_with_mean
    \/ score_subjects
    \/ correlate_gender_age

Spec == Init /\ [][Next]_vars

-----------------------------------------------------------------------------
(* Vocabulary of the properties *)

AnalysisOps == {"show_age_distrib", "remove_rows_without_mail",
                "fill_na_with_mean", "score_subjects", "correlate_gender_age"}

Loaded == data # None

\* the row positions 1..n as a sequence
Rows(df) == [i \in 1..NRows(df) |-> i]

\* the whole name is 'q' followed by one or more digits
FullMatchQDigits(name) ==
    /\ Len(name) >= 2
    /\ name[1] = "q"
    /\ \A i \in 2..Len(name) : IsDigit(name[i])

\* the columns named 'q' followed by one or more digits, in table order
QuestionColumns(df) == SelectSeq(df.columns, FullMatchQDigits)

\* cell is the mean of the present values of cells: n/d with n*count = sum*d,
\* absent when nothing is present
IsMeanOf(cell, cells) ==
    LET p == Present(cells)
    IN  IF Len(p) = 0 THEN IsAbsent(cell)
        ELSE /\ IsPresent(cell)
             /\ cell[1] * Len(p) = Sum(p) * (IF Len(cell) = 2 THEN cell[2] ELSE 1)

\* cell is the floor of the mean of the present values of cells
IsFloorOfMeanOf(cell, cells) ==
    LET p == Present(cells)
    IN  IF Len(p) = 0 THEN IsAbsent(cell)
        ELSE /\ Len(cell) = 1
             /\ cell[1] * Len(p) <= Sum(p)
             /\ Sum(p) < (cell[1] + 1) * Len(p)

\* s has a '@' with a word character before it and, after it, a word
\* character, any character and a word character
HasLooseAddress(s) ==
    \E p \in 2..(Len(s) - 3) :
        /\ s[p] = "@"
        /\ IsWord(s[p - 1])
        /\ IsWord(s[p + 1])
        /\ s[p + 2] # "\n"
        /\ IsWord(s[p + 3])

-----------------------------------------------------------------------------
(* C1 *)

\* C1, as stated: an analysis operation called on an object that was never
\* loaded fails with a distinct not-loaded error, returns nothing and leaves
\* the object unloaded.
C1_RaisesNotLoadedError ==
    [][(data = None /\ op' \in AnalysisOps)
         => (data' = None /\ ret' = NoResult /\ err' = "NotLoadedError")]_vars

\* C1, amended: an analysis operation called on an object that was never
\* loaded fails with the TypeError or AttributeError that using None raises,
\* returns nothing and leaves the object unloaded.
C1_UnloadedCallRaises ==
    [][(data = None /\ op' \in AnalysisOps)
         => (data' = None /\ ret' = NoResult
             /\ err' \in {"TypeError", "AttributeError"})]_vars

\* an analysis operation has been called on an object whose load failed
C1_Witness ==
    /\ data = None
    /\ file = NotJson
    /\ op \in AnalysisOps
    /\ err # "none"

-----------------------------------------------------------------------------
(* C2 *)

\* C2: only read_data changes the stored table; every other call leaves it
\* cell for cell as it was, so that a call repeated on a loaded object
\* returns (or raises) what it did the first time.
C2_OnlyLoadChangesTable ==
    [][op' # "read_data"
         => /\ data' = data
            /\ (Loaded /\ op' = op /\ arg' = arg) => (ret' = ret /\ err' = err)]_vars

\* score_subjects has returned a table with a score column, and the stored
\* table has none
C2_Witness ==
    /\ Loaded
    /\ op = "score_subjects"
    /\ err = "none"
    /\ ScoreName \in Range(ret.columns)
    /\ ScoreName \notin Range(data.columns)
    /\ data = file

-----------------------------------------------------------------------------
(* C3 *)

AgesPresent(df) == {i \in 1..NRows(df) : IsPresent(df.col[AgeName][i])}

AgesInRange(df) ==
    {i \in AgesPresent(df) : 0 <= df.col[AgeName][i][1] /\ df.col[AgeName][i][1] <= 100}

HistogramShape ==
    /\ err = "none"
    /\ Len(ret.counts) = 10
    /\ ret.bins = <<0, 10, 20, 30, 40, 50, 60, 70, 80, 90, 100>>
    /\ AgesPresent(data) = {} => \A i \in 1..10 : ret.counts[i] = 0

\* C3, as stated: the ten counts sum to the number of rows whose age is not
\* absent, and the edges are 0, 10, ..., 100.
C3_CountsSumToPresentAges ==
    (Loaded /\ op = "show_age_distrib")
        => (HistogramShape /\ Sum(ret.counts) = Cardinality(AgesPresent(data)))

\* C3, amended: the ten counts sum to the number of rows whose age is not
\* absent and lies in [0, 100]; the edges are 0, 10, ..., 100; an all-absent
\* age column gives ten zeros.
C3_CountsSumToAgesInRange ==
    (Loaded /\ op = "show_age_distrib")
        => (HistogramShape /\ Sum(ret.counts) = Cardinality(AgesInRange(data)))

\* a histogram of a table holding an age of 100 and an age outside [0, 100]
C3_Witness ==
    /\ Loaded
    /\ op = "show_age_distrib"
    /\ \E i \in AgesPresent(data) : data.col[AgeName][i][1] = 100
    /\ AgesInRange(data) # AgesPresent(data)
    /\ ret.counts[10] >= 1

-----------------------------------------------------------------------------
(* C4 *)

AllEmailsPresent(df) == \A i \in 1..NRows(df) : IsPresent(df.col[EmailName][i])

\* the positions of the rows whose email holds a loose address, in order
ValidRows(df) ==
    SelectSeq(Rows(df), LAMBDA i : /\ IsPresent(df.col[EmailName][i])
                                   /\ HasLooseAddress(df.col[EmailName][i][1]))

\* the returned emails are those of the valid rows, in order, indexed 0..n-1,
\* and each holds a '@'
ReturnsValidEmails ==
    LET valid == ValidRows(data)
    IN  /\ err = "none"
        /\ ret.index = [r \in 1..Len(valid) |-> r - 1]
        /\ Len(ret.col[EmailName]) = Len(valid)
        /\ \A r \in 1..Len(valid) :
              /\ ret.col[EmailName][r] = data.col[EmailName][valid[r]]
              /\ "@" \in Range(ret.col[EmailName][r][1])

-----------------------------------------------------------------------------
(* C5 *)

\* C5: when some row's email is absent the filter still returns, without
\* those rows and with the rows whose email matches.
C5_AbsentEmailsExcluded ==
    (Loaded /\ op = "remove_rows_without_mail" /\ ~AllEmailsPresent(data))
        => ReturnsValidEmails

-----------------------------------------------------------------------------
(* C6 *)

\* C6: the result holds only the question columns, each present cell kept
\* and each absent cell replaced by its column's mean, with the labels of the
\* rows that had an absent question cell.
C6_ImputesQuestionMeans ==
    (Loaded /\ op = "fill_na_with_mean")
        => LET qs == QuestionColumns(data)
               holes == SelectSeq(Rows(data), LAMBDA i : NaCount(data, qs, i) > 0)
           IN  /\ err = "none"
               /\ ret.df.columns = qs
               /\ \A c \in Range(qs) : \A i \in 1..NRows(data) :
                     IF IsPresent(data.col[c][i])
                     THEN ret.df.col[c][i] = data.col[c][i]
                     ELSE IsMeanOf(ret.df.col[c][i], data.col[c])
               /\ ret.na_rows = [r \in 1..Len(holes) |-> data.index[holes[r]]]

-----------------------------------------------------------------------------
(* C7 *)

\* every cell of the columns the method reads is absent or in [0, 255], so
\* that every mean of them is
CellsFitUInt8(df) ==
    \A c \in Range(q_columns(df)) : \A i \in 1..NRows(df) : FitsUInt8(df.col[c][i])

\* C7: the result is the table with a score per row: absent when the row has
\* more absent question values than the threshold, else the floor of the mean
\* of its present question values.  (Stated for the tables whose values fit
\* the score's type.)
C7_ScoresFloorOfMean ==
    (Loaded /\ op = "score_subjects" /\ CellsFitUInt8(data))
        => LET qs == QuestionColumns(data)
           IN  /\ err = "none"
               /\ ret.columns = Append(data.columns, ScoreName)
               /\ \A c \in Range(data.columns) : ret.col[c] = data.col[c]
               /\ Len(ret.col[ScoreName]) = NRows(data)
               /\ \A i \in 1..NRows(data) :
                     IF NaCount(data, qs, i) > arg[1]
                     THEN IsAbsent(ret.col[ScoreName][i])
                     ELSE IsFloorOfMeanOf(ret.col[ScoreName][i], RowCells(data, qs, i))

-----------------------------------------------------------------------------
(* C8 *)

\* C8: every score of a returned table is absent or an integer in [0, 255]
\* that is the floor of its row's mean, never that floor reduced modulo 256;
\* a table with a row whose floor of mean is outside [0, 255] is not scored:
\* the call raises.
C8_ScoreFitsUInt8 ==
    (Loaded /\ op = "score_subjects")
        => LET qs == q_columns(data)
               fits(i) == \E v \in 0..255 : IsFloorOfMeanOf(<<v>>, RowCells(data, qs, i))
               empty(i) == NaCount(data, qs, i) = Len(qs)
           IN  IF err = "none"
               THEN \A i \in 1..NRows(data) :
                       \/ IsAbsent(ret.col[ScoreName][i])
                       \/ /\ Len(ret.col[ScoreName][i]) = 1
                          /\ ret.col[ScoreName][i][1] \in 0..255
                          /\ IsFloorOfMeanOf(ret.col[ScoreName][i], RowCells(data, qs, i))
               ELSE /\ err = "TypeError"
                    /\ ret = NoResult
                    /\ \E i \in 1..NRows(data) : ~empty(i) /\ ~fits(i)

\* a returned score of 255 for a row holding 255 and 256
C8_Witness ==
    /\ Loaded
    /\ op = "score_subjects"
    /\ err = "none"
    /\ \E i \in 1..NRows(data) :
          /\ ret.col[ScoreName][i] = <<255>>
          /\ <<256>> \in Range(RowCells(data, q_columns(data), i))

-----------------------------------------------------------------------------
(* C9 *)

-----------------------------------------------------------------------------
(* C10 *)

\* C10: the columns treated as question columns are exactly those whose
\* whole name is 'q' followed by digits, in fill_na_with_mean and
\* correlate_gender_age alike.
C10_QuestionColumnsByWholeName ==
    (Loaded /\ err = "none")
        => /\ op = "fill_na_with_mean" => ret.df.columns = QuestionColumns(data)
           /\ op = "correlate_gender_age" => ret.columns = QuestionColumns(data)

=============================================================================
